---- MODULE Spec2Model ----
(***************************************************************************)
(* Model of bot/utilities/http_server.py: HTTPServer.handle_request and    *)
(* the handlers it dispatches to.                                          *)
(*                                                                         *)
(* Text is modelled as a sequence of atoms.  An atom is a run of           *)
(* characters that the code never looks into: the separators the code      *)
(* splits on (" ", "?", "&", "=", the line boundary) are atoms of their    *)
(* own, "<BAD>" is a byte sequence that is not valid UTF-8, and every      *)
(* other atom is a word without separators.  Concatenating strings is      *)
(* concatenating atom sequences, and two strings are equal iff their atom  *)
(* sequences are.                                                          *)
(***************************************************************************)
EXTENDS Integers, Sequences, FiniteSets, TLC

VARIABLES pc, request_data, method, path, query_params, response,
          writes, events, log, conn_exc, eof, outcome, routes, anime_updates,
          conns, srv, srv_addr, listening, srv_log

vars == <<pc, request_data, method, path, query_params, response,
          writes, events, log, conn_exc, eof, outcome, routes, anime_updates,
                   conns, srv, srv_addr, listening, srv_log>>

\* ---------------------------------------------------------------- bounds
MaxLen == 3
MaxSegs == 2
NumConns == 2

\* ----------------------------------------------------------------- atoms
SP == " "
CRLF == "<CRLF>"
BAD == "<BAD>"
QM == "?"
AMP == "&"
EQ == "="

\* ------------------------------------------------------ string functions
\* index of the first occurrence of atom c in s, 0 when absent
RECURSIVE IndexFrom(_, _, _)
IndexFrom(s, c, i) ==
    IF i > Len(s) THEN 0
    ELSE IF s[i] = c THEN i
    ELSE IndexFrom(s, c, i + 1)

IndexOf(s, c) == IndexFrom(s, c, 1)

Contains(s, c) == \E i \in 1..Len(s) : s[i] = c

\* str.split(sep): every occurrence of sep cuts; empty pieces are kept
RECURSIVE Split(_, _)
Split(s, sep) ==
    LET i == IndexOf(s, sep) IN
    IF i = 0 THEN <<s>>
    ELSE <<SubSeq(s, 1, i - 1)>> \o Split(SubSeq(s, i + 1, Len(s)), sep)

\* str.split(sep, 1) on a string that contains sep: cut at the first one
SplitOnce(s, sep) ==
    LET i == IndexOf(s, sep) IN
    <<SubSeq(s, 1, i - 1), SubSeq(s, i + 1, Len(s))>>

\* bytes.decode(): raises UnicodeDecodeError when any byte of the data read
\* is not valid UTF-8
DecodeRaises(data) == Contains(data, BAD)

\* str.splitlines()[0] of a non-empty string: the text before the first
\* line boundary
FirstLine(s) ==
    LET i == IndexOf(s, CRLF) IN
    IF i = 0 THEN s ELSE SubSeq(s, 1, i - 1)

\* dict assignment d[k] = v
DictSet(d, k, v) ==
    [x \in (DOMAIN d) \cup {k} |-> IF x = k THEN v ELSE d[x]]

EmptyDict == [x \in {} |-> <<>>]

\* the loop of lines 57-60 over the segments of the query string
RECURSIVE ParseParams(_, _)
ParseParams(segs, d) ==
    IF segs = <<>> THEN d
    ELSE LET param == Head(segs) IN
         IF Contains(param, EQ)
         THEN LET kv == SplitOnce(param, EQ) IN
              ParseParams(Tail(segs), DictSet(d, kv[1], kv[2]))
         ELSE ParseParams(Tail(segs), d)

\* ------------------------------------------------------------- responses
status_messages ==
    [c \in {"400", "404", "405", "500"} |->
        CASE c = "400" -> "Bad Request"
          [] c = "404" -> "Not Found"
          [] c = "405" -> "Method Not Allowed"
          [] c = "500" -> "Internal Server Error"]

render_error_page(status_code, message) ==
    <<"<error-page ", status_code, message, ">">>

\* the error response without its Content-Type header
create_error_response_no_header(status_code, message) ==
    <<"HTTP/1.1", SP, status_code, SP, message, CRLF, CRLF>>
    \o render_error_page(status_code, message)

create_error_response(status_code, message) ==
    LET status_text == IF status_code \in DOMAIN status_messages
                       THEN status_messages[status_code]
                       ELSE "Unknown Error" IN
    <<"HTTP/1.1", SP, status_code, SP, status_text, CRLF,
      "Content-Type: ", "text/html", CRLF, CRLF>>
    \o render_error_page(status_code, message)

render_template(title, content) ==
    <<"HTTP/1.1", SP, "200", SP, "OK", CRLF,
      "Content-Type: ", "text/html", CRLF, CRLF>>
    \o <<"<page ", title>> \o content \o <<">">>

\* the method test inverted
handle_home_inverted(updates, m, params) ==
    IF m = <<"GET">>
    THEN create_error_response("405", "Method Not Allowed")
    ELSE render_template("Ani3Lix - Your Anime Hub", <<"home">> \o updates)

handle_home(updates, m, params) ==
    IF m # <<"GET">>
    THEN create_error_response("405", "Method Not Allowed")
    ELSE render_template("Ani3Lix - Your Anime Hub", <<"home">> \o updates)

handle_anime(m, params) ==
    IF m # <<"GET">>
    THEN create_error_response("405", "Method Not Allowed")
    ELSE render_template("Anime List - Ani3Lix", <<"anime">>)

handle_about(m, params) ==
    IF m # <<"GET">>
    THEN create_error_response("405", "Method Not Allowed")
    ELSE render_template("About - Ani3Lix", <<"about">>)

handle_favicon(m, params) ==
    <<"HTTP/1.1", SP, "204", SP, "No Content", CRLF, CRLF>>

\* the route table with a key for /api/links
InitRoutes_with_api ==
    [p \in {<<"/">>, <<"/", "anime">>, <<"/", "about">>, <<"/", "favicon.ico">>,
            <<"/", "api/links">>} |->
        CASE p = <<"/">> -> "handle_home"
          [] p = <<"/", "anime">> -> "handle_anime"
          [] p = <<"/", "about">> -> "handle_about"
          [] p = <<"/", "favicon.ico">> -> "handle_favicon"
          [] p = <<"/", "api/links">> -> "handle_home"]

\* the route table and the fixture built by __init__
InitRoutes ==
    [p \in {<<"/">>, <<"/", "anime">>, <<"/", "about">>, <<"/", "favicon.ico">>} |->
        CASE p = <<"/">> -> "handle_home"
          [] p = <<"/", "anime">> -> "handle_anime"
          [] p = <<"/", "about">> -> "handle_about"
          [] p = <<"/", "favicon.ico">> -> "handle_favicon"]

InitAnimeUpdates ==
    <<"One Piece", "Jujutsu Kaisen", "Demon Slayer", "My Hero Academia",
      "Bleach: Thousand-Year Blood War">>

\* await handler(method, query_params)
CallHandler(h, updates, m, params) ==
    CASE h = "handle_home" -> handle_home(updates, m, params)
      [] h = "handle_anime" -> handle_anime(m, params)
      [] h = "handle_about" -> handle_about(m, params)
      [] h = "handle_favicon" -> handle_favicon(m, params)

\* ------------------------------------------------- request line parsing
\* lines 45-46: the tokens of the request line
RequestParts(data) == Split(FirstLine(data), SP)

\* the path token routed as it is, query string included
RoutePath_keeps_query(token) == token

\* lines 52-56: the route path, the text of the path token before the
\* first "?"
RoutePath(token) ==
    IF Contains(token, QM) THEN SplitOnce(token, QM)[1] ELSE token

\* lines 52-60: the query parameters of the path token
QueryParams(token) ==
    IF Contains(token, QM)
    THEN ParseParams(Split(SplitOnce(token, QM)[2], AMP), EmptyDict)
    ELSE EmptyDict

\* routes.get(path, self.handle_home): a miss served by the home handler
Route_default_home(rt, updates, m, p, params) ==
    IF p \in DOMAIN rt
    THEN CallHandler(rt[p], updates, m, params)
    ELSE handle_home(updates, m, params)

\* lines 63-67: routes.get(path) and the dispatch
Route(rt, updates, m, p, params) ==
    IF p \in DOMAIN rt
    THEN CallHandler(rt[p], updates, m, params)
    ELSE create_error_response("404", "Not Found")

\* a request line without a version refused: len(parts) < 3
BuildResponse_needs_version(rt, updates, data) ==
    LET parts == RequestParts(data) IN
    IF Len(parts) < 3
    THEN create_error_response("400", "Bad Request")
    ELSE Route(rt, updates, parts[1], RoutePath(parts[2]), QueryParams(parts[2]))

\* lines 45-67 for a decoded request
BuildResponse(rt, updates, data) ==
    LET parts == RequestParts(data) IN
    IF Len(parts) < 2
    THEN create_error_response("400", "Bad Request")
    ELSE Route(rt, updates, parts[1], RoutePath(parts[2]), QueryParams(parts[2]))

\* ------------------------------------------- what a client may send
Alphabet == {"GET", "POST", SP, "/", "anime", QM, CRLF, BAD}

\* every text of at most MaxLen atoms
ShortInputs == UNION {[1..k -> Alphabet] : k \in 0..MaxLen}

Methods == {<<"GET">>, <<"POST">>}

Paths ==
    {<<"/">>, <<"/", "anime">>, <<"/", "about">>, <<"/", "favicon.ico">>,
     <<"/", "x">>, <<"anime">>, <<>>}

Segments ==
    {<<>>, <<"k">>, <<"k", EQ, "v">>, <<"k", EQ, "w">>,
     <<"j", EQ, "v", EQ, QM>>}

RECURSIVE Join(_, _)
Join(segs, sep) ==
    IF Len(segs) = 0 THEN <<>>
    ELSE IF Len(segs) = 1 THEN segs[1]
    ELSE segs[1] \o <<sep>> \o Join(Tail(segs), sep)

\* query strings of 1..MaxSegs segments joined with "&"
QueryStrings ==
    {Join(ss, AMP) : ss \in UNION {[1..k -> Segments] : k \in 1..MaxSegs}}

PathTokens ==
    Paths \cup {p \o <<QM>> \o q : p \in Paths, q \in QueryStrings}

\* what follows the path token: nothing, the version, headers and a body
Tails ==
    {<<>>, <<SP, "HTTP/1.1">>,
     <<SP, "HTTP/1.1", CRLF, "Host: x", CRLF, CRLF, "body">>,
     <<SP, "HTTP/1.1", CRLF, BAD>>}

RequestInputs ==
    {m \o <<SP>> \o t \o r : m \in Methods, t \in PathTokens, r \in Tails}

\* request lines of particular shapes: a doubled space, a path of the JSON
\* variants
EdgeInputs ==
    {<<"GET", SP, SP, "/">>,
     <<"GET", SP, SP, "/", SP, "HTTP/1.1">>,
     <<"GET", SP, "/", "api/links">>,
     <<"GET", SP, "/", "api/links", SP, "HTTP/1.1">>,
     <<"GET", SP, "/", "api/links", SP, "HTTP/1.1", CRLF, "Host: x", CRLF, CRLF>>}

Inputs == ShortInputs \cup RequestInputs \cup EdgeInputs

\* ---------------------------------------------------------------- state
\* a connection of the concurrent model: the locals of its handle_request
\* task and the calls made on its reader and writer
NewConn ==
    [pc |-> "read", data |-> <<>>, response |-> <<>>, writes |-> <<>>,
     events |-> <<>>, lost |-> FALSE, eof |-> FALSE, outcome |-> "running"]

\* pc is the position of the handle_request coroutine; events records the
\* calls made on the reader and the writer, writes the data passed to
\* writer.write, log the levels of the records logged; conn_exc holds when
\* the transport has lost the connection with an error (a reset by the
\* peer); outcome is how handle_request ended.
Init ==
    /\ pc = "read"
    /\ request_data = <<>>
    /\ method = <<>>
    /\ path = <<>>
    /\ query_params = EmptyDict
    /\ response = <<>>
    /\ writes = <<>>
    /\ events = <<>>
    /\ log = <<>>
    /\ conn_exc = FALSE
    /\ eof = FALSE
    /\ outcome = "running"
    /\ routes = InitRoutes
    /\ anime_updates = InitAnimeUpdates
    /\ conns = [c \in 1..NumConns |-> NewConn]
    /\ srv = "idle"
    /\ srv_addr = <<>>
    /\ listening = <<>>
    /\ srv_log = <<>>

\* line 36, await reader.read(1024) returns the data received (b"" at end
\* of stream)
ReadData ==
    /\ pc = "read"
    /\ \E d \in Inputs :
        /\ request_data' = d
        /\ eof' = (d = <<>>)
    /\ events' = Append(events, "read")
    /\ pc' = "parse"
    /\ UNCHANGED <<method, path, query_params, response, writes, log,
                   conn_exc, outcome, routes, anime_updates,
                   conns, srv, srv_addr, listening, srv_log>>

\* line 36, await reader.read(1024) raises: the peer reset the connection
ReadRaises ==
    /\ pc = "read"
    /\ events' = Append(events, "read")
    /\ conn_exc' = TRUE
    /\ pc' = "except"
    /\ UNCHANGED <<request_data, method, path, query_params, response, writes,
                   log, eof, outcome, routes, anime_updates,
                   conns, srv, srv_addr, listening, srv_log>>

\* no data answered like a malformed request
ParseEmpty_answers_400 ==
    /\ pc = "parse"
    /\ request_data = <<>>
    /\ response' = create_error_response("400", "Bad Request")
    /\ pc' = "write"
    /\ UNCHANGED <<request_data, method, path, query_params, writes,
                   events, log, conn_exc, eof, outcome, routes, anime_updates,
                   conns, srv, srv_addr, listening, srv_log>>

\* lines 37-38, no data: return (the finally clause runs next)
ParseEmpty ==
    /\ pc = "parse"
    /\ request_data = <<>>
    /\ pc' = "close"
    /\ UNCHANGED <<request_data, method, path, query_params, response, writes,
                   events, log, conn_exc, eof, outcome, routes, anime_updates,
                   conns, srv, srv_addr, listening, srv_log>>

\* line 40, request_data.decode() raises
ParseRaises ==
    /\ pc = "parse"
    /\ request_data # <<>>
    /\ DecodeRaises(request_data)
    /\ pc' = "except"
    /\ UNCHANGED <<request_data, method, path, query_params, response, writes,
                   events, log, conn_exc, eof, outcome, routes, anime_updates,
                   conns, srv, srv_addr, listening, srv_log>>

\* lines 40-67, the request is decoded, logged, parsed and dispatched
Parse ==
    /\ pc = "parse"
    /\ request_data # <<>>
    /\ ~DecodeRaises(request_data)
    /\ log' = Append(log, "info")
    /\ LET parts == RequestParts(request_data) IN
        IF Len(parts) < 2
        THEN UNCHANGED <<method, path, query_params>>
        ELSE /\ method' = parts[1]
             /\ path' = RoutePath(parts[2])
             /\ query_params' = QueryParams(parts[2])
    /\ response' = BuildResponse(routes, anime_updates, request_data)
    /\ pc' = "write"
    /\ UNCHANGED <<request_data, writes, events, conn_exc, eof, outcome,
                   routes, anime_updates,
                   conns, srv, srv_addr, listening, srv_log>>

\* line 69, writer.write(response.encode())
Write ==
    /\ pc = "write"
    /\ writes' = Append(writes, response)
    /\ events' = Append(events, "write")
    /\ pc' = "drain"
    /\ UNCHANGED <<request_data, method, path, query_params, response, log,
                   conn_exc, eof, outcome, routes, anime_updates,
                   conns, srv, srv_addr, listening, srv_log>>

\* line 70, await writer.drain(): raises when the connection is lost
Drain ==
    /\ pc = "drain"
    /\ pc' = IF conn_exc THEN "except" ELSE "close"
    /\ UNCHANGED <<request_data, method, path, query_params, response, writes,
                   events, log, conn_exc, eof, outcome, routes, anime_updates,
                   conns, srv, srv_addr, listening, srv_log>>

\* the exception handled by writing the response again
Except_retries_write ==
    /\ pc = "except"
    /\ log' = Append(log, "error")
    /\ pc' = IF writes = <<>> THEN "close" ELSE "write"
    /\ UNCHANGED <<request_data, method, path, query_params, response, writes,
                   events, conn_exc, eof, outcome, routes, anime_updates,
                   conns, srv, srv_addr, listening, srv_log>>

\* lines 71-72, except Exception: the error is logged
Except ==
    /\ pc = "except"
    /\ log' = Append(log, "error")
    /\ pc' = "close"
    /\ UNCHANGED <<request_data, method, path, query_params, response, writes,
                   events, conn_exc, eof, outcome, routes, anime_updates,
                   conns, srv, srv_addr, listening, srv_log>>

\* line 74, finally: writer.close()
Close ==
    /\ pc = "close"
    /\ events' = Append(events, "close")
    /\ pc' = "wait_closed"
    /\ UNCHANGED <<request_data, method, path, query_params, response, writes,
                   log, conn_exc, eof, outcome, routes, anime_updates,
                   conns, srv, srv_addr, listening, srv_log>>

\* line 75, await writer.wait_closed(): raises the error the connection was
\* lost with, outside the try statement
WaitClosed ==
    /\ pc = "wait_closed"
    /\ outcome' = IF conn_exc THEN "raised" ELSE "returned"
    /\ pc' = "done"
    /\ UNCHANGED <<request_data, method, path, query_params, response, writes,
                   events, log, conn_exc, eof, routes, anime_updates,
                   conns, srv, srv_addr, listening, srv_log>>

\* the peer resets the connection while the handler runs; after end of
\* stream with nothing written the transport no longer notices
PeerReset ==
    /\ pc \in {"parse", "write", "drain", "close", "wait_closed"}
    /\ ~eof
    /\ ~conn_exc
    /\ conn_exc' = TRUE
    /\ UNCHANGED <<pc, request_data, method, path, query_params, response,
                   writes, events, log, eof, outcome, routes, anime_updates,
                   conns, srv, srv_addr, listening, srv_log>>

Next ==
    \/ ReadData
    \/ ReadRaises
    \/ ParseEmpty
    \/ ParseRaises
    \/ Parse
    \/ Write
    \/ Drain
    \/ Except
    \/ Close
    \/ WaitClosed
    \/ PeerReset

Spec == Init /\ [][Next]_vars

\* ------------------------------------------ the module-level run_server
\* srv is the position of the run_server coroutine, srv_addr its
\* arguments, listening the address connections are accepted on (<<>> when
\* none), srv_log the levels of the records it logged.
handler_vars ==
    <<pc, request_data, method, path, query_params, response, writes, events,
      log, conn_exc, eof, outcome>>

\* the attributes of class HTTPServer that can be called
HTTPServerMethods ==
    {"__init__", "handle_request", "handle_home", "handle_anime",
     "handle_about", "handle_favicon", "create_error_response",
     "render_error_page", "render_template"}

Hosts == {"127.0.0.1", "0.0.0.0", "localhost", "::1", "192.168.0.2"}

Ports == {0, 80, 443, 3000, 5000, 8000, 8080, 8443, 9000, 65535}

\* lines 729-737: logging is set up, the HTTPServer is constructed and the
\* start is logged
RunServerStart ==
    /\ srv = "idle"
    /\ \E host \in Hosts, port \in Ports : srv_addr' = <<host, port>>
    /\ srv_log' = Append(srv_log, "info")
    /\ srv' = "call"
    /\ UNCHANGED <<handler_vars, routes, anime_updates, conns, listening>>

\* line 740, await server.run_server(): the attribute lookup on the
\* HTTPServer object raises AttributeError when the class has no such
\* method
RunServerCall ==
    /\ srv = "call"
    /\ IF "run_server" \in HTTPServerMethods
       THEN /\ listening' = srv_addr
            /\ srv' = "serving"
       ELSE /\ listening' = listening
            /\ srv' = "except"
    /\ UNCHANGED <<handler_vars, routes, anime_updates, conns, srv_addr, srv_log>>

\* lines 743-744, except Exception: the error is logged and run_server
\* returns
RunServerExcept ==
    /\ srv = "except"
    /\ srv_log' = Append(srv_log, "error")
    /\ srv' = "returned"
    /\ UNCHANGED <<handler_vars, routes, anime_updates, conns, srv_addr, listening>>

NextRun ==
    \/ RunServerStart
    \/ RunServerCall
    \/ RunServerExcept

SpecRun == Init /\ [][NextRun]_vars

\* ------------------------------------- connections handled concurrently
\* One handle_request task per accepted connection, scheduled by the event
\* loop: a task runs from one await to the next (read, drain, wait_closed)
\* and the tasks interleave at those points.  The tasks share self.routes
\* and self.anime_updates; everything else is local to the task.
Conns == 1..NumConns

run_vars == <<srv, srv_addr, listening, srv_log>>

ConcInputs ==
    {<<>>, <<"GET", SP, "/">>, <<"POST", SP, "/", "anime", QM, "k", EQ, "v">>,
     <<"GET">>, <<BAD>>}

\* line 36, the read returns
CRead(c) ==
    /\ conns[c].pc = "read"
    /\ \E d \in ConcInputs :
        conns' = [conns EXCEPT ![c].data = d,
                               ![c].eof = (d = <<>>),
                               ![c].events = Append(@, "read"),
                               ![c].pc = "dispatch"]
    /\ UNCHANGED <<handler_vars, routes, anime_updates, run_vars>>

\* line 36, the read raises
CReadRaises(c) ==
    /\ conns[c].pc = "read"
    /\ conns' = [conns EXCEPT ![c].events = Append(@, "read"),
                              ![c].lost = TRUE,
                              ![c].pc = "except"]
    /\ UNCHANGED <<handler_vars, routes, anime_updates, run_vars>>

\* the home handler taking the update it shows off the shared fixture
CDispatch_consumes_update(c) ==
    /\ conns[c].pc = "dispatch"
    /\ LET d == conns[c].data IN
       IF d = <<>>
       THEN /\ conns' = [conns EXCEPT ![c].pc = "close"]
            /\ UNCHANGED anime_updates
       ELSE IF DecodeRaises(d)
       THEN /\ conns' = [conns EXCEPT ![c].pc = "except"]
            /\ UNCHANGED anime_updates
       ELSE /\ conns' = [conns EXCEPT
                           ![c].response = BuildResponse(routes, anime_updates, d),
                           ![c].pc = "write"]
            /\ anime_updates' = IF anime_updates = <<>> THEN <<>>
                                ELSE Tail(anime_updates)
    /\ UNCHANGED <<handler_vars, routes, run_vars>>

\* lines 37-67: no data returns, a decode error raises, otherwise the
\* request is parsed and dispatched with the shared route table and fixture
CDispatch(c) ==
    /\ conns[c].pc = "dispatch"
    /\ LET d == conns[c].data IN
       IF d = <<>>
       THEN conns' = [conns EXCEPT ![c].pc = "close"]
       ELSE IF DecodeRaises(d)
       THEN conns' = [conns EXCEPT ![c].pc = "except"]
       ELSE conns' = [conns EXCEPT
                        ![c].response = BuildResponse(routes, anime_updates, d),
                        ![c].pc = "write"]
    /\ UNCHANGED <<handler_vars, routes, anime_updates, run_vars>>

\* line 69
CWrite(c) ==
    /\ conns[c].pc = "write"
    /\ conns' = [conns EXCEPT ![c].writes = Append(@, conns[c].response),
                              ![c].events = Append(@, "write"),
                              ![c].pc = "drain"]
    /\ UNCHANGED <<handler_vars, routes, anime_updates, run_vars>>

\* line 70
CDrain(c) ==
    /\ conns[c].pc = "drain"
    /\ conns' = [conns EXCEPT ![c].pc = IF conns[c].lost THEN "except" ELSE "close"]
    /\ UNCHANGED <<handler_vars, routes, anime_updates, run_vars>>

\* lines 71-72
CExcept(c) ==
    /\ conns[c].pc = "except"
    /\ conns' = [conns EXCEPT ![c].pc = "close"]
    /\ UNCHANGED <<handler_vars, routes, anime_updates, run_vars>>

\* line 74
CClose(c) ==
    /\ conns[c].pc = "close"
    /\ conns' = [conns EXCEPT ![c].events = Append(@, "close"),
                              ![c].pc = "wait_closed"]
    /\ UNCHANGED <<handler_vars, routes, anime_updates, run_vars>>

\* line 75
CWaitClosed(c) ==
    /\ conns[c].pc = "wait_closed"
    /\ conns' = [conns EXCEPT
                   ![c].outcome = IF conns[c].lost THEN "raised" ELSE "returned",
                   ![c].pc = "done"]
    /\ UNCHANGED <<handler_vars, routes, anime_updates, run_vars>>

\* the peer of connection c resets it
CPeerReset(c) ==
    /\ conns[c].pc \in {"dispatch", "write", "drain", "close", "wait_closed"}
    /\ ~conns[c].eof
    /\ ~conns[c].lost
    /\ conns' = [conns EXCEPT ![c].lost = TRUE]
    /\ UNCHANGED <<handler_vars, routes, anime_updates, run_vars>>

NextConc ==
    \E c \in Conns :
        \/ CRead(c)
        \/ CReadRaises(c)
        \/ CDispatch(c)
        \/ CWrite(c)
        \/ CDrain(c)
        \/ CExcept(c)
        \/ CClose(c)
        \/ CWaitClosed(c)
        \/ CPeerReset(c)

SpecConc == Init /\ [][NextConc]_vars

\* ------------------------------------------------ reading an input
\* The properties below describe the input on its own terms, by positions,
\* not through the operators the handler is built from.
Decodable(d) == \A i \in 1..Len(d) : d[i] # BAD

FirstPos(s, c) == CHOOSE i \in 1..Len(s) : s[i] = c /\ \A j \in 1..(i - 1) : s[j] # c

Has(s, c) == \E i \in 1..Len(s) : s[i] = c

\* the text before the first c (all of s when there is none)
Before(s, c) == IF Has(s, c) THEN SubSeq(s, 1, FirstPos(s, c) - 1) ELSE s

\* the text after the first c (empty when there is none)
After(s, c) == IF Has(s, c) THEN SubSeq(s, FirstPos(s, c) + 1, Len(s)) ELSE <<>>

ReqLine(d) == Before(d, CRLF)

HasTwoTokens(d) == Has(ReqLine(d), SP)

MethodToken(d) == Before(ReqLine(d), SP)

PathToken(d) == Before(After(ReqLine(d), SP), SP)

PathOf(d) == Before(PathToken(d), QM)

StartsWith(s, p) == Len(s) >= Len(p) /\ SubSeq(s, 1, Len(p)) = p

StatusIs(r, code) == StartsWith(r, <<"HTTP/1.1", SP, code, SP>>)

\* -------------------------------------------------------------- C1
HomeLine == <<"GET", SP, "/", SP, "HTTP/1.1">>

IsHomeRequest ==
    /\ Decodable(request_data)
    /\ ReqLine(request_data) = HomeLine

\* C1: when the data read decodes as text and its first line is
\* GET / HTTP/1.1, handle_request calls write exactly once, and what it
\* writes starts with HTTP/1.1 200.
C1_HomeIs200 ==
    IsHomeRequest =>
        /\ Len(writes) <= 1
        /\ pc = "done" =>
            /\ Len(writes) = 1
            /\ StartsWith(writes[1], <<"HTTP/1.1", SP, "200">>)

C1_Witness ==
    /\ pc = "done"
    /\ IsHomeRequest
    /\ Len(request_data) > Len(HomeLine)
    /\ Len(writes) = 1

\* -------------------------------------------------------------- C2
UnregisteredRequest ==
    /\ request_data # <<>>
    /\ Decodable(request_data)
    /\ HasTwoTokens(request_data)
    /\ PathOf(request_data) \notin DOMAIN routes

\* C2: a decoded request line with at least two tokens whose path, query
\* string removed, is not a key of the route table is answered 404,
\* whatever its method.
C2_Unregistered404 ==
    (pc = "done" /\ UnregisteredRequest) =>
        /\ Len(writes) = 1
        /\ StatusIs(writes[1], "404")

C2_Witness ==
    /\ pc = "done"
    /\ UnregisteredRequest
    /\ MethodToken(request_data) = <<"POST">>
    /\ PathOf(request_data) = <<"/", "x">>
    /\ Has(PathToken(request_data), QM)
    /\ Len(writes) = 1

\* -------------------------------------------------------------- C3
\* C3: a request for a registered path whose method is not GET is answered
\* 405, for each of the four registered paths.
C3_WrongMethod405 ==
    (/\ pc = "done"
     /\ request_data # <<>>
     /\ Decodable(request_data)
     /\ HasTwoTokens(request_data)
     /\ PathOf(request_data) \in DOMAIN routes
     /\ MethodToken(request_data) # <<"GET">>) =>
        /\ Len(writes) = 1
        /\ StatusIs(writes[1], "405")

\* -------------------------------------------------------------- C4
OneTokenRequest ==
    /\ request_data # <<>>
    /\ Decodable(request_data)
    /\ ~HasTwoTokens(request_data)

\* C4: a non-empty input whose request line has a single token is answered
\* with a written 400 Bad Request, and the handler finishes normally: no
\* exception leaves it and the connection is closed.
C4_OneToken400 ==
    (pc = "done" /\ OneTokenRequest) =>
        /\ Len(writes) = 1
        /\ StartsWith(writes[1], <<"HTTP/1.1", SP, "400", SP, "Bad Request">>)
        /\ events[Len(events)] = "close"
        /\ outcome = "returned"

\* -------------------------------------------------------------- C5
\* C5: when the read returns no data, handle_request writes nothing, closes
\* the connection and returns without an exception.
C5_EmptyRead ==
    (pc = "done" /\ eof) =>
        /\ writes = <<>>
        /\ events = <<"read", "close">>
        /\ outcome = "returned"

C5_Witness ==
    /\ pc = "done"
    /\ eof
    /\ request_data = <<>>
    /\ events = <<"read", "close">>

\* -------------------------------------------------------------- C6
IsPrefix(s, t) == Len(s) <= Len(t) /\ SubSeq(t, 1, Len(s)) = s

\* C6: on every path handle_request reads at most once and writes at most
\* once, a write comes before the close, and the connection is closed
\* exactly once, as the last call.
C6_OneReadOneWriteClose ==
    /\ \/ IsPrefix(events, <<"read", "close">>)
       \/ IsPrefix(events, <<"read", "write", "close">>)
    /\ Len(writes) <= 1
    /\ pc = "done" => events \in {<<"read", "close">>, <<"read", "write", "close">>}

C6_Witness ==
    /\ pc = "done"
    /\ events = <<"read", "write", "close">>
    /\ \E i \in 1..Len(log) : log[i] = "error"

\* -------------------------------------------------------------- C7
\* C7: when decoding, parsing or dispatching a non-empty request raises, a
\* 400 or 500 response is written before the connection is closed.
C7_ParseErrorAnswered ==
    (pc = "done" /\ request_data # <<>> /\ ~Decodable(request_data)) =>
        /\ events = <<"read", "write", "close">>
        /\ Len(writes) = 1
        /\ (StatusIs(writes[1], "400") \/ StatusIs(writes[1], "500"))

\* -------------------------------------------------------------- C8
\* C8: whatever the input and whatever fails on the connection,
\* handle_request returns normally, the failure is logged and no second
\* write is attempted.
C8_NothingEscapes ==
    pc = "done" =>
        /\ outcome = "returned"
        /\ conn_exc => \E i \in 1..Len(log) : log[i] = "error"
        /\ Len(writes) <= 1

\* -------------------------------------------------------------- C9
StatusReasons ==
    {<<"200", "OK">>, <<"204", "No Content">>, <<"400", "Bad Request">>,
     <<"404", "Not Found">>, <<"405", "Method Not Allowed">>,
     <<"500", "Internal Server Error">>}

\* HTTP/1.1 <code> <reason> CRLF Content-Type: <type> CRLF CRLF body
HasHeaderForm(r) ==
    /\ Len(r) >= 10
    /\ r[1] = "HTTP/1.1"
    /\ r[2] = SP
    /\ r[4] = SP
    /\ <<r[3], r[5]>> \in StatusReasons
    /\ r[6] = CRLF
    /\ r[7] = "Content-Type: "
    /\ r[8] \notin {CRLF, SP, "Content-Type: "}
    /\ r[9] = CRLF
    /\ r[10] = CRLF

\* HTTP/1.1 204 No Content CRLF CRLF: no header, no body
IsBare204(r) == r = <<"HTTP/1.1", SP, "204", SP, "No Content", CRLF, CRLF>>

\* C9 as stated: every response written has the status line, a
\* Content-Type header, an empty line and the body.
C9_EveryResponseHasContentType ==
    \A i \in 1..Len(writes) : HasHeaderForm(writes[i])

\* C9, amended: every response written has that form, except the 204
\* response, which is the status line followed by an empty line, without a
\* Content-Type header.
C9_HeaderFormOrBare204 ==
    \A i \in 1..Len(writes) :
        /\ HasHeaderForm(writes[i]) \/ IsBare204(writes[i])
        /\ StatusIs(writes[i], "204") => IsBare204(writes[i])

C9_Witness ==
    /\ pc = "done"
    /\ Len(writes) = 1
    /\ IsBare204(writes[1])
    /\ MethodToken(request_data) = <<"GET">>

\* ------------------------------------------------------------- C10
\* the segments of a query string, as pairs of first and last position
SegBounds(q) ==
    {ab \in (1..(Len(q) + 1)) \X (0..Len(q)) :
        /\ ab[2] >= ab[1] - 1
        /\ ab[1] = 1 \/ q[ab[1] - 1] = AMP
        /\ ab[2] = Len(q) \/ q[ab[2] + 1] = AMP
        /\ \A i \in ab[1]..ab[2] : q[i] # AMP}

Seg(q, ab) == SubSeq(q, ab[1], ab[2])

\* the mapping the claim describes: the segments with "=" cut at their
\* first "=", the last occurrence of a key winning
ExpectedParams(q) ==
    LET keyed == {ab \in SegBounds(q) : Has(Seg(q, ab), EQ)}
        keys == {Before(Seg(q, ab), EQ) : ab \in keyed}
    IN [k \in keys |->
          LET last == CHOOSE ab \in keyed :
                        /\ Before(Seg(q, ab), EQ) = k
                        /\ \A o \in keyed :
                             Before(Seg(q, o), EQ) = k => o[1] <= ab[1]
          IN After(Seg(q, last), EQ)]

ParsedRequest ==
    /\ pc \notin {"read", "parse"}
    /\ request_data # <<>>
    /\ Decodable(request_data)
    /\ HasTwoTokens(request_data)

\* the same request with the query string taken off the path token
WithoutQuery(d) == MethodToken(d) \o <<SP>> \o PathOf(d)

\* C10: the route path is the text of the path token before its first "?",
\* the parameters are those of the text after it (split on "&", then on
\* the first "="; segments without "=" dropped; last value of a key kept),
\* and the response to P?Q is the response to P.
C10_QueryParsing ==
    ParsedRequest =>
        /\ path = PathOf(request_data)
        /\ query_params = ExpectedParams(After(PathToken(request_data), QM))
        /\ pc = "done" =>
             writes = <<BuildResponse(routes, anime_updates,
                                      WithoutQuery(request_data))>>

C10_Witness ==
    /\ pc = "done"
    /\ ParsedRequest
    /\ PathToken(request_data) = <<"/", "anime", QM, "k", EQ, "v", AMP, "k", EQ, "w">>
    /\ path = <<"/", "anime">>
    /\ DOMAIN query_params = {<<"k">>}
    /\ query_params[<<"k">>] = <<"w">>
    /\ StatusIs(writes[1], "200")

\* ------------------------------------------------------------- C11
\* what handle_request passes to writer.write for the data d: lines 40-69
WritesFor(rt, updates, d) ==
    IF d = <<>> \/ DecodeRaises(d) THEN <<>>
    ELSE <<BuildResponse(rt, updates, d)>>

\* C11: what follows the first line is ignored: a non-empty input gets the
\* outcome (the response written, or none) of the input that has the same
\* first line and nothing after it.
C11_RestIgnored ==
    (pc = "done" /\ request_data # <<>>) =>
        writes = WritesFor(routes, anime_updates, ReqLine(request_data) \o <<CRLF>>)

\* ------------------------------------------------------------- C12
ApiLinksRequest ==
    /\ Decodable(request_data)
    /\ HasTwoTokens(request_data)
    /\ MethodToken(request_data) = <<"GET">>
    /\ PathOf(request_data) = <<"/", "api/links">>

\* C12 as stated: GET /api/links is answered 200 with a JSON body.
C12_ApiLinks200 ==
    (pc = "done" /\ ApiLinksRequest) =>
        /\ Len(writes) = 1
        /\ StatusIs(writes[1], "200")
        /\ Len(writes[1]) >= 8
        /\ writes[1][8] = "application/json"

\* C12, amended: the route table has no key /api/links, and GET /api/links
\* is answered with the 404 Not Found error page.
C12_ApiLinks404 ==
    /\ <<"/", "api/links">> \notin DOMAIN routes
    /\ (pc = "done" /\ ApiLinksRequest) =>
         writes = <<create_error_response("404", "Not Found")>>

C12_Witness ==
    /\ pc = "done"
    /\ ApiLinksRequest
    /\ ReqLine(request_data) = <<"GET", SP, "/", "api/links", SP, "HTTP/1.1">>
    /\ Len(writes) = 1
    /\ StatusIs(writes[1], "404")

\* ------------------------------------------------------------- C15
\* C15: for non-empty decodable input the answer is 400 exactly when the
\* first line has no space; a first line with a space and an empty path
\* token is answered 404, and GET / without a version is served as
\* GET / HTTP/1.1 is.
C15_BadRequestIffNoSpace ==
    (pc = "done" /\ request_data # <<>> /\ Decodable(request_data)) =>
        /\ Len(writes) = 1
        /\ StatusIs(writes[1], "400") <=> ~Has(ReqLine(request_data), SP)
        /\ (HasTwoTokens(request_data) /\ PathToken(request_data) = <<>>) =>
             StatusIs(writes[1], "404")
        /\ ReqLine(request_data) = <<"GET", SP, "/">> =>
             /\ StatusIs(writes[1], "200")
             /\ writes[1] = render_template("Ani3Lix - Your Anime Hub",
                                            <<"home">> \o anime_updates)

C15_Witness ==
    /\ pc = "done"
    /\ request_data = <<"GET", SP, SP, "/">>
    /\ Len(writes) = 1
    /\ StatusIs(writes[1], "404")

\* ------------------------------------------------------------- C13
\* C13: once run_server(host, port) is past its call of the server's
\* run_server (it serves, or it has returned), connections are accepted on
\* (host, port); run_server does not return before that.
C13_RunServerAccepts ==
    srv \in {"serving", "returned"} => listening = srv_addr

\* ------------------------------------------------------------- C14
\* C14: however the tasks of the connections interleave, the route table
\* and the anime_updates fixture stay as __init__ built them, and each
\* connection is written the response it would get handled alone.
C14_Isolation ==
    /\ routes = InitRoutes
    /\ anime_updates = InitAnimeUpdates
    /\ \A c \in Conns :
        /\ Len(conns[c].writes) <= 1
        /\ conns[c].pc \notin {"read", "dispatch", "write"} =>
             conns[c].writes = WritesFor(InitRoutes, InitAnimeUpdates, conns[c].data)

C14_Witness ==
    /\ conns[1].pc = "done"
    /\ conns[1].data = <<"GET", SP, "/">>
    /\ StatusIs(conns[1].writes[1], "200")
    /\ conns[2].pc = "drain"
    /\ conns[2].data = <<"POST", SP, "/", "anime", QM, "k", EQ, "v">>
    /\ StatusIs(conns[2].writes[1], "405")

====
